---- MODULE Spec2Model ----
(***************************************************************************)
(* A model of src/libmir.py: the command line entry point main, the        *)
(* pipeline analyze_music_file, and the functions load_audio,              *)
(* extract_audio_features and create_analysis_plots.                       *)
(*                                                                         *)
(* The program is single threaded, so the state is the position of the     *)
(* one thread (pc), the locals that are live at that position, and the     *)
(* things of the outside world the program changes (standard output,       *)
(* directories, files, interactive windows, the exit status).              *)
(*                                                                         *)
(* librosa, numpy, matplotlib, os and pathlib are not code of the          *)
(* repository.  A call into them is modelled at the call site with the     *)
(* arguments the source passes (and the documented defaults for those it   *)
(* does not pass); what a call returns is drawn from a bounded set of the  *)
(* values the library can return for that input.                           *)
(***************************************************************************)
EXTENDS Integers, Sequences, FiniteSets, TLC

VARIABLES
    pc,              \* position of the thread
    args,            \* argparse namespace of main
    target_sr,       \* parameter target_sr of load_audio (0 before the call)
    path_exists,     \* what os.path.exists answered: "unchecked", "yes", "no"
    decode_attempts, \* number of calls of librosa.load
    signal,          \* the waveform load_audio returned (abstract), or NoSignal
    sample_rate,     \* the rate load_audio returned (0 before)
    pbar_n,          \* tqdm counter n
    locals,          \* locals of extract_audio_features computed so far
    np_divides,      \* number of array divisions line 43 performed
    features,        \* the dict extract_audio_features returned (empty before)
    exc,             \* the exception in flight, "None" when there is none
    exit_status,     \* <<>> while running, <<s>> once the process ended
    stdout,          \* what was printed, in order
    dirs,            \* directories created
    files,           \* files written
    plot_calls,      \* calls of create_analysis_plots: [sr, save_path]
    shown            \* number of plt.show() calls

\* groups of variables, for UNCHANGED
loaded == <<target_sr, path_exists, decode_attempts, signal, sample_rate>>
extracted == <<pbar_n, locals, np_divides, features>>
world == <<stdout, dirs, files, plot_calls, shown>>

vars == <<pc, args, target_sr, path_exists, decode_attempts, signal, sample_rate,
          pbar_n, locals, np_divides, features, exc, exit_status, stdout, dirs,
          files, plot_calls, shown>>

-----------------------------------------------------------------------------
(* Bounds of the model *)

\* Waveform lengths enumerated for extract_audio_features: k * hop_length + r
\* with k in 0..MaxHops and r in {0, hop_length - 1}.
MaxHops == 4

\* The same for the waveforms librosa.load returns in a run of the CLI.
MaxLoadHops == 1

\* Per frame RMS values are 0..MaxLevel (in units of one quantisation step).
MaxLevel == 2

\* Zero crossing counts per frame are 0..MaxCross.
MaxCross == 1

-----------------------------------------------------------------------------
(* Program constants *)

\* load_audio(audio_path, target_sr=22050)
target_sr_default == 22050

\* parser.add_argument('-sr', '--sample-rate', type=int, default=22050)
sample_rate_default == 22050

\* tqdm(total=9, ...)
pbar_total == 9

\* librosa.feature.rms / zero_crossing_rate defaults: frame_length=2048,
\* hop_length=512, center=True
frame_length == 2048
hop_length == 512

-----------------------------------------------------------------------------
(* Values *)

None == <<>>
NoSignal == [N |-> -1, silent |-> FALSE, finite |-> FALSE]
NoArgs == [input_file |-> <<>>, output |-> None, sample_rate |-> 0, no_plot |-> FALSE]
EmptyDict == [k \in {} |-> 0]

\* File names given on the command line, as sequences of characters.
InputFiles == { <<"a">>, <<"a", ".", "w">>, <<"a", ".", "b", ".", "w">> }

\* -o absent, -o "" and -o out
OutputOpts == { None, <<"">>, <<"out">> }

\* -sr absent, -sr 44100
SampleRateOpts == { None, <<44100>> }

RECURSIVE Gcd(_, _)
Gcd(a, b) == IF b = 0 THEN a ELSE Gcd(b, a % b)
Abs(n) == IF n < 0 THEN -n ELSE n

\* Numbers are exact: a rational n/d is the pair <<n, d>> in lowest terms with
\* d > 0.  The result of a division by zero (inf, nan) is a pair <<n, 0>>.
Rat(n, d) ==
    IF d = 0 THEN <<n, 0>>
    ELSE LET g == Gcd(Abs(n), Abs(d))
             sign == IF d < 0 THEN -1 ELSE 1
         IN  <<sign * (n \div g), sign * (d \div g)>>
RatEq(a, b) == a[2] # 0 /\ b[2] # 0 /\ a[1] * b[2] = b[1] * a[2]
RatLe(a, b) == a[2] # 0 /\ b[2] # 0 /\ a[1] * b[2] <= b[1] * a[2]
RatSub(a, b) == Rat(a[1] * b[2] - b[1] * a[2], a[2] * b[2])
RatDiv(a, b) == Rat(a[1] * b[2], a[2] * b[1])
RatAdd(a, b) == Rat(a[1] * b[2] + b[1] * a[2], a[2] * b[2])
Zero == <<0, 1>>

\* Python truthiness of an optional string
Truthy(s) == s # None /\ s[1] # ""

-----------------------------------------------------------------------------
(* Pure functions *)

\* The waveforms of at most maxHops * hop_length + hop_length - 1 samples: their
\* length, whether all samples are zero, and whether all samples are finite.
Waveforms(maxHops) ==
    { w \in [N : { k * hop_length + r : k \in 0..maxHops, r \in {0, hop_length - 1} },
             silent : BOOLEAN, finite : BOOLEAN] :
        /\ w.silent => w.finite
        /\ (w.N = 0) => (w.silent /\ w.finite) }

\* The library may raise on an input it does not accept: samples that are not
\* finite are always refused, an empty waveform is refused by some extractors of
\* some versions.
MayRaise(w) == w.N = 0 \/ ~w.finite
MayComplete(w) == w.finite

\* Variant of FrameCount: center=False, the waveform is framed without padding.
FrameCountUncentered(N) == 1 + ((N - frame_length) \div hop_length)

\* center=True pads frame_length \div 2 samples at both ends, then frames of
\* frame_length samples are taken every hop_length samples.
FrameCount(N) ==
    LET padded == N + 2 * (frame_length \div 2)
    IN  1 + ((padded - frame_length) \div hop_length)

AllSeqs(S, n) == [1..n -> S]

\* librosa.feature.rms(y=signal)[0]: one value >= 0 per frame, all 0 for silence,
\* not all 0 otherwise.
Rms(w) ==
    IF w.silent
    THEN { [i \in 1..FrameCount(w.N) |-> Zero] }
    ELSE { [i \in 1..FrameCount(w.N) |-> <<s[i], 1>>] :
             s \in { t \in AllSeqs(0..MaxLevel, FrameCount(w.N)) :
                       \E i \in 1..FrameCount(w.N) : t[i] > 0 } }

\* librosa.feature.zero_crossing_rate(signal)[0]: per frame the fraction of sign
\* changes (pad=False: the first sample counts as no crossing); silence has none.
\* The sequences enumerated are those with the same count in every frame.
ZeroCrossingRate(w) ==
    IF w.silent
    THEN { [i \in 1..FrameCount(w.N) |-> Zero] }
    ELSE { [i \in 1..FrameCount(w.N) |-> Rat(c, frame_length)] : c \in 0..MaxCross }

RECURSIVE NpMaxUpTo(_, _)
NpMaxUpTo(x, n) ==
    IF n = 1 THEN x[1]
    ELSE LET m == NpMaxUpTo(x, n - 1) IN IF RatLe(m, x[n]) THEN x[n] ELSE m
NpMax(x) == NpMaxUpTo(x, Len(x))

RECURSIVE NpMinUpTo(_, _)
NpMinUpTo(x, n) ==
    IF n = 1 THEN x[1]
    ELSE LET m == NpMinUpTo(x, n - 1) IN IF RatLe(x[n], m) THEN x[n] ELSE m
NpMin(x) == NpMinUpTo(x, Len(x))

RECURSIVE NpSumUpTo(_, _)
NpSumUpTo(x, n) == IF n = 0 THEN Zero ELSE RatAdd(NpSumUpTo(x, n - 1), x[n])
NpMean(x) == RatDiv(NpSumUpTo(x, Len(x)), <<Len(x), 1>>)

\* line 41
VolumeRange(raw_volume) == RatSub(NpMax(raw_volume), NpMin(raw_volume))

\* Variant of VolumeEnvelope: divides by the maximum instead of the range.
VolumeEnvelopeByMax(raw_volume, volume_range) ==
    IF RatEq(volume_range, Zero)
    THEN raw_volume
    ELSE [i \in 1..Len(raw_volume) |->
            RatDiv(RatSub(raw_volume[i], NpMin(raw_volume)), NpMax(raw_volume))]

\* Variant of VolumeEnvelope: divides whatever the range is.
VolumeEnvelopeUnguarded(raw_volume, volume_range) ==
    [i \in 1..Len(raw_volume) |->
        RatDiv(RatSub(raw_volume[i], NpMin(raw_volume)), volume_range)]

\* line 43
VolumeEnvelope(raw_volume, volume_range) ==
    IF RatEq(volume_range, Zero)
    THEN raw_volume
    ELSE [i \in 1..Len(raw_volume) |->
            RatDiv(RatSub(raw_volume[i], NpMin(raw_volume)), volume_range)]

\* whether line 43 divides
Divides(volume_range) == ~RatEq(volume_range, Zero)

\* f"{x:.3f}": x in thousandths, rounded to the nearest (x >= 0, finite)
Format3f(x) == (2 * 1000 * x[1] + x[2]) \div (2 * x[2])

\* Variant of Bundle: the 'transitions' entry is left out.
BundleWithoutTransitions(l) ==
    [k \in {"mel_spectrogram", "tempo", "beats", "pitch_content", "timbre",
            "brightness", "volume", "onsets"} |->
        CASE k = "mel_spectrogram" -> l["mel_db_scale"]
          [] k = "tempo" -> l["music_tempo"]
          [] k = "beats" -> l["beat_positions"]
          [] k = "pitch_content" -> l["pitch_classes"]
          [] k = "timbre" -> l["timbre_features"]
          [] k = "brightness" -> l["brightness"]
          [] k = "volume" -> l["volume_envelope"]
          [] k = "onsets" -> l["note_onsets"]]

\* lines 52-62: the dict built from the locals
Bundle(l) ==
    [k \in {"mel_spectrogram", "tempo", "beats", "pitch_content", "timbre",
            "brightness", "volume", "onsets", "transitions"} |->
        CASE k = "mel_spectrogram" -> l["mel_db_scale"]
          [] k = "tempo" -> l["music_tempo"]
          [] k = "beats" -> l["beat_positions"]
          [] k = "pitch_content" -> l["pitch_classes"]
          [] k = "timbre" -> l["timbre_features"]
          [] k = "brightness" -> l["brightness"]
          [] k = "volume" -> l["volume_envelope"]
          [] k = "onsets" -> l["note_onsets"]
          [] k = "transitions" -> l["signal_transitions"]]

\* Position of the last "." of a name, 0 when there is none
RFindDot(name) ==
    LET S == { i \in 1..Len(name) : name[i] = "." }
    IN  IF S = {} THEN 0 ELSE CHOOSE i \in S : \A j \in S : j <= i

\* Path(file_path).stem: the name without its last suffix; a leading or a
\* trailing dot starts no suffix
Stem(name) ==
    LET j == RFindDot(name)
    IN  IF 1 < j /\ j < Len(name) THEN SubSeq(name, 1, j - 1) ELSE name

\* Variant of PlotPath: the file name is used with its suffix.
PlotPathWithName(output_dir, file_path) ==
    [dir |-> output_dir[1], file |-> file_path \o <<"_analysis.png">>]

\* line 131
PlotPath(output_dir, file_path) ==
    [dir |-> output_dir[1], file |-> Stem(file_path) \o <<"_analysis.png">>]

-----------------------------------------------------------------------------
(* Initial states *)

Init ==
    /\ pc = "main"
    /\ args = NoArgs
    /\ target_sr = 0
    /\ path_exists = "unchecked"
    /\ decode_attempts = 0
    /\ signal = NoSignal
    /\ sample_rate = 0
    /\ pbar_n = 0
    /\ locals = EmptyDict
    /\ np_divides = 0
    /\ features = EmptyDict
    /\ exc = "None"
    /\ exit_status = None
    /\ stdout = <<>>
    /\ dirs = {}
    /\ files = {}
    /\ plot_calls = <<>>
    /\ shown = 0

\* extract_audio_features(signal, sample_rate) called on a waveform at the
\* default rate: the state at line 21
InitExtract ==
    /\ pc = "melspectrogram"
    /\ args = NoArgs
    /\ target_sr = target_sr_default
    /\ path_exists = "yes"
    /\ decode_attempts = 1
    /\ signal \in Waveforms(MaxHops)
    /\ sample_rate = target_sr_default
    /\ pbar_n = 0
    /\ locals = EmptyDict
    /\ np_divides = 0
    /\ features = EmptyDict
    /\ exc = "None"
    /\ exit_status = None
    /\ stdout = <<>>
    /\ dirs = {}
    /\ files = {}
    /\ plot_calls = <<>>
    /\ shown = 0

-----------------------------------------------------------------------------------------------------------------------------------------------------
(* main and analyze_music_file, up to the call of extract_audio_features *)

\* lines 138-146: parse_args
main_parse_args ==
    /\ pc = "main"
    /\ \E f \in InputFiles, o \in OutputOpts, sr \in SampleRateOpts, np \in BOOLEAN :
         args' = [input_file |-> f,
                  output |-> o,
                  sample_rate |-> IF sr = None THEN sample_rate_default ELSE sr[1],
                  no_plot |-> np]
    /\ pc' = "analyze_music_file"
    /\ UNCHANGED <<loaded, extracted, world, exc, exit_status>>

\* The rate analyze_music_file passes to load_audio: line 111 passes none, so
\* the parameter takes its default whatever args.sample_rate is.
LoadRate(a) == target_sr_default

\* lines 148, 109-111: main calls analyze_music_file(input_file, output, no_plot),
\* which prints the start line and calls load_audio(file_path)
analyze_begin ==
    /\ pc = "analyze_music_file"
    /\ stdout' = Append(stdout, [line |-> "Starting analysis"])
    /\ target_sr' = LoadRate(args)
    /\ pc' = "load_audio"
    /\ UNCHANGED <<args, path_exists, decode_attempts, signal, sample_rate, extracted,
                   dirs, files, plot_calls, shown, exc, exit_status>>

\* Variant of load_audio_exists: the file is handed to the decoder unchecked.
load_audio_decode_first ==
    /\ pc = "load_audio"
    /\ path_exists' = "no"
    /\ decode_attempts' = decode_attempts + 1
    /\ exc' = "DecodeError"
    /\ pc' = "raised"
    /\ UNCHANGED <<args, target_sr, signal, sample_rate, extracted, world, exit_status>>

\* lines 15-16: os.path.exists(audio_path), FileNotFoundError when it is false
load_audio_exists ==
    /\ pc = "load_audio"
    /\ \/ /\ path_exists' = "yes"
          /\ pc' = "librosa_load"
          /\ exc' = exc
       \/ /\ path_exists' = "no"
          /\ exc' = "FileNotFoundError"
          /\ pc' = "raised"
    /\ UNCHANGED <<args, target_sr, decode_attempts, signal, sample_rate, extracted,
                   world, exit_status>>

\* lines 18-19, 111-112: librosa.load(audio_path, sr=target_sr) raises on a file
\* it cannot decode, and otherwise returns a waveform (possibly empty) at the
\* rate target_sr; analyze_music_file passes both to extract_audio_features
load_audio_librosa_load ==
    /\ pc = "librosa_load"
    /\ decode_attempts' = decode_attempts + 1
    /\ \/ /\ exc' = "DecodeError"
          /\ pc' = "raised"
          /\ UNCHANGED <<signal, sample_rate>>
       \/ /\ \E w \in Waveforms(MaxLoadHops) : signal' = w
          /\ sample_rate' = target_sr
          /\ pc' = "melspectrogram"
          /\ exc' = exc
    /\ UNCHANGED <<args, target_sr, path_exists, extracted, world, exit_status>>

-----------------------------------------------------------------------------
(* extract_audio_features *)

\* What an extractor that takes the waveform and the rate returns, abstractly:
\* which function computed it, from which waveform, at which rate.
Extracted(fn, y, sr) == [fn |-> fn, N |-> y.N, sr |-> sr]

\* One statement of lines 24-48 that calls the library on the waveform, with the
\* pbar.update(1) that follows it: the call completes and its results are bound
\* to locals, or it raises and the exception leaves the function.
ExtractorCall(here, next, results) ==
    /\ pc = here
    /\ \/ /\ MayComplete(signal)
          /\ locals' = results @@ locals
          /\ pbar_n' = pbar_n + 1
          /\ pc' = next
          /\ exc' = exc
       \/ /\ MayRaise(signal)
          /\ exc' = "LibraryError"
          /\ pc' = "raised"
          /\ UNCHANGED <<locals, pbar_n>>
    /\ UNCHANGED <<args, loaded, np_divides, features, world, exit_status>>

\* lines 24-26
extract_mel_spectrogram ==
    ExtractorCall("melspectrogram", "beat_track",
        "mel_db_scale" :> Extracted("power_to_db(melspectrogram)", signal, sample_rate))

\* lines 28-29
extract_beat_track ==
    ExtractorCall("beat_track", "chroma_stft",
        ("music_tempo" :> Extracted("beat_track[0]", signal, sample_rate))
        @@ ("beat_positions" :> Extracted("beat_track[1]", signal, sample_rate)))

\* lines 31-32
extract_chroma_stft ==
    ExtractorCall("chroma_stft", "mfcc",
        "pitch_classes" :> Extracted("chroma_stft", signal, sample_rate))

\* lines 34-35
extract_mfcc ==
    ExtractorCall("mfcc", "spectral_centroid",
        "timbre_features" :> Extracted("mfcc", signal, sample_rate))

\* lines 37-38
extract_spectral_centroid ==
    ExtractorCall("spectral_centroid", "rms",
        "brightness" :> Extracted("spectral_centroid", signal, sample_rate))

\* lines 39-40
extract_rms ==
    /\ pc = "rms"
    /\ \E r \in Rms(signal) : ExtractorCall("rms", "volume_range", "raw_volume" :> r)

\* lines 41-42
extract_volume_range ==
    /\ pc = "volume_range"
    /\ locals' = ("volume_range" :> VolumeRange(locals["raw_volume"])) @@ locals
    /\ pbar_n' = pbar_n + 1
    /\ pc' = "volume_envelope"
    /\ UNCHANGED <<args, loaded, np_divides, features, world, exc, exit_status>>

\* lines 43-44
extract_volume_envelope ==
    /\ pc = "volume_envelope"
    /\ locals' = ("volume_envelope" :>
                    VolumeEnvelope(locals["raw_volume"], locals["volume_range"])) @@ locals
    /\ np_divides' = IF Divides(locals["volume_range"]) THEN np_divides + 1 ELSE np_divides
    /\ pbar_n' = pbar_n + 1
    /\ pc' = "onset_strength"
    /\ UNCHANGED <<args, loaded, features, world, exc, exit_status>>

\* lines 45-46
extract_onset_strength ==
    ExtractorCall("onset_strength", "zero_crossing_rate",
        "note_onsets" :> Extracted("onset_strength", signal, sample_rate))

\* lines 47-48
extract_zero_crossing_rate ==
    /\ pc = "zero_crossing_rate"
    /\ \E z \in ZeroCrossingRate(signal) :
          ExtractorCall("zero_crossing_rate", "return", "signal_transitions" :> z)

\* lines 50-62, and the assignment of line 112
extract_return ==
    /\ pc = "return"
    /\ features' = Bundle(locals)
    /\ pc' = "report"
    /\ UNCHANGED <<args, loaded, pbar_n, locals, np_divides, world, exc, exit_status>>

NextExtract ==
    \/ extract_mel_spectrogram
    \/ extract_beat_track
    \/ extract_chroma_stft
    \/ extract_mfcc
    \/ extract_spectral_centroid
    \/ extract_rms
    \/ extract_volume_range
    \/ extract_volume_envelope
    \/ extract_onset_strength
    \/ extract_zero_crossing_rate
    \/ extract_return

-----------------------------------------------------------------------------
(* analyze_music_file after extraction, create_analysis_plots, the exit *)

\* lines 114-126: the table of four rows, printed
analyze_report ==
    /\ pc = "report"
    /\ stdout' = Append(stdout,
            [line |-> "table",
             tempo |-> features["tempo"],
             volume |-> Format3f(NpMean(features["volume"])),
             brightness |-> features["brightness"],
             transitions |-> Format3f(NpMean(features["transitions"]))])
    /\ pc' = "plot"
    /\ UNCHANGED <<args, loaded, extracted, dirs, files, plot_calls, shown, exc,
                   exit_status>>

\* line 128, no_plot set: nothing more is done
analyze_no_plot ==
    /\ pc = "plot"
    /\ args.no_plot
    /\ pc' = "analyzed"
    /\ UNCHANGED <<args, loaded, extracted, world, exc, exit_status>>

\* lines 129-132: os.makedirs(output_dir, exist_ok=True), which the file system
\* may refuse, then create_analysis_plots(features, sample_rate, plot_path)
analyze_plot_to_file ==
    /\ pc = "plot"
    /\ ~args.no_plot
    /\ Truthy(args.output)
    /\ \/ /\ dirs' = dirs \cup {args.output[1]}
          /\ plot_calls' = Append(plot_calls,
                [sr |-> sample_rate,
                 save_path |-> <<PlotPath(args.output, args.input_file)>>])
          /\ pc' = "create_analysis_plots"
          /\ exc' = exc
       \/ /\ exc' = "OSError"
          /\ pc' = "raised"
          /\ UNCHANGED <<dirs, plot_calls>>
    /\ UNCHANGED <<args, loaded, extracted, stdout, files, shown, exit_status>>

\* lines 134-135: create_analysis_plots(features, sample_rate)
analyze_plot_to_screen ==
    /\ pc = "plot"
    /\ ~args.no_plot
    /\ ~Truthy(args.output)
    /\ plot_calls' = Append(plot_calls, [sr |-> sample_rate, save_path |-> None])
    /\ pc' = "create_analysis_plots"
    /\ UNCHANGED <<args, loaded, extracted, stdout, dirs, files, shown, exc, exit_status>>

\* lines 64-105: the six panels are drawn, then the figure is saved and closed
\* when save_path is given and shown otherwise
create_analysis_plots ==
    /\ pc = "create_analysis_plots"
    /\ LET save_path == plot_calls[Len(plot_calls)].save_path
       IN  IF save_path # None
           THEN /\ files' = files \cup {save_path[1]}
                /\ pc' = "plot_saved"
                /\ shown' = shown
           ELSE /\ shown' = shown + 1
                /\ pc' = "analyzed"
                /\ files' = files
    /\ UNCHANGED <<args, loaded, extracted, stdout, dirs, plot_calls, exc, exit_status>>

\* line 133
analyze_plot_saved ==
    /\ pc = "plot_saved"
    /\ stdout' = Append(stdout, [line |-> "Analysis plots saved"])
    /\ pc' = "analyzed"
    /\ UNCHANGED <<args, loaded, extracted, dirs, files, plot_calls, shown, exc,
                   exit_status>>

\* lines 148-151: analyze_music_file and main return, the interpreter exits 0
main_return ==
    /\ pc = "analyzed"
    /\ exit_status' = <<0>>
    /\ pc' = "exited"
    /\ UNCHANGED <<args, loaded, extracted, world, exc>>

\* Variant of uncaught_exception: the exception is swallowed and main returns.
caught_exception ==
    /\ pc = "raised"
    /\ exit_status' = <<0>>
    /\ pc' = "exited"
    /\ UNCHANGED <<args, loaded, extracted, world, exc>>

\* No function of the file catches an exception (there is no try statement):
\* one raised in load_audio, extract_audio_features or analyze_music_file leaves
\* main, and the interpreter prints the traceback and exits with status 1
uncaught_exception ==
    /\ pc = "raised"
    /\ exit_status' = <<1>>
    /\ pc' = "exited"
    /\ UNCHANGED <<args, loaded, extracted, world, exc>>

Next ==
    \/ main_parse_args
    \/ analyze_begin
    \/ load_audio_exists
    \/ load_audio_librosa_load
    \/ NextExtract
    \/ analyze_report
    \/ analyze_no_plot
    \/ analyze_plot_to_file
    \/ analyze_plot_to_screen
    \/ create_analysis_plots
    \/ analyze_plot_saved
    \/ main_return
    \/ uncaught_exception

\* A run of the command line program
Spec == Init /\ [][Next]_vars

\* A call of extract_audio_features
SpecExtract == InitExtract /\ [][NextExtract]_vars

-----------------------------------------------------------------------------
(* Properties *)

Returned == DOMAIN features # {}
Printed(what) == \E i \in 1..Len(stdout) : stdout[i].line = what
Exited == pc = "exited"
NothingExtracted == DOMAIN locals = {} /\ pbar_n = 0 /\ ~Returned
NothingPlotted == plot_calls = <<>> /\ dirs = {} /\ files = {} /\ shown = 0

\* C1: when the path does not exist, load_audio raises FileNotFoundError with
\* no call of librosa.load made, and nothing is extracted, reported or plotted.
C1_NotFoundBeforeDecode ==
    path_exists = "no" =>
        /\ exc = "FileNotFoundError"
        /\ pc \in {"raised", "exited"}
        /\ decode_attempts = 0
        /\ signal = NoSignal
        /\ NothingExtracted
        /\ ~Printed("table")
        /\ NothingPlotted

C1_Witness == path_exists = "no" /\ Exited

\* C2: the volume entry is the min-max rescaling of the raw RMS sequence: for a
\* sequence that is not constant every entry is (x - min) / (max - min), the
\* smallest is 0 and the largest 1; a constant sequence is returned as it is
\* and nothing is divided.
C2_MinMaxRescaling ==
    Returned =>
        LET raw == locals["raw_volume"]
            vol == features["volume"]
            lo == NpMin(raw)
            hi == NpMax(raw)
        IN  /\ Len(vol) = Len(raw)
            /\ IF RatEq(hi, lo)
               THEN vol = raw /\ np_divides = 0
               ELSE /\ \A i \in 1..Len(raw) :
                        RatEq(vol[i], RatDiv(RatSub(raw[i], lo), RatSub(hi, lo)))
                    /\ \E i \in 1..Len(vol) : RatEq(vol[i], Zero)
                    /\ \E i \in 1..Len(vol) : RatEq(vol[i], <<1, 1>>)
                    /\ \A i \in 1..Len(vol) : RatLe(Zero, vol[i]) /\ RatLe(vol[i], <<1, 1>>)
                    /\ np_divides = 1

\* a bundle whose raw RMS sequence is not constant and has its smallest value
\* above 0
C2_Witness ==
    /\ Returned
    /\ np_divides = 1
    /\ NpMin(locals["raw_volume"])[1] > 0
    /\ Len(locals["raw_volume"]) >= 3

FeatureNames ==
    {"mel_spectrogram", "tempo", "beats", "pitch_content", "timbre", "brightness",
     "volume", "onsets", "transitions"}

\* C3: a returned bundle has exactly the nine keys, each holding what its
\* extractor computed from the waveform, and no exception is in flight; after
\* an exception no bundle exists.
C3_NoPartialBundle ==
    /\ Returned =>
        /\ DOMAIN features = FeatureNames
        /\ exc = "None"
        /\ features["mel_spectrogram"]
             = Extracted("power_to_db(melspectrogram)", signal, sample_rate)
        /\ features["tempo"] = Extracted("beat_track[0]", signal, sample_rate)
        /\ features["beats"] = Extracted("beat_track[1]", signal, sample_rate)
        /\ features["pitch_content"] = Extracted("chroma_stft", signal, sample_rate)
        /\ features["timbre"] = Extracted("mfcc", signal, sample_rate)
        /\ features["brightness"] = Extracted("spectral_centroid", signal, sample_rate)
        /\ features["volume"] = locals["volume_envelope"]
        /\ features["onsets"] = Extracted("onset_strength", signal, sample_rate)
        /\ features["transitions"] \in ZeroCrossingRate(signal)
    /\ exc # "None" => ~Returned
    /\ pc = "report" => Returned

C3_Witness == pc = "report" /\ Returned /\ signal.N > 0

\* C4: the rate given with -sr is the rate the waveform is loaded at and the
\* rate every extractor and the plotting step receive.
C4_OverrideUsed ==
    /\ target_sr # 0 => target_sr = args.sample_rate
    /\ sample_rate # 0 => sample_rate = args.sample_rate
    /\ \A k \in DOMAIN locals \cap {"mel_db_scale", "music_tempo", "beat_positions",
                                    "pitch_classes", "timbre_features", "brightness",
                                    "note_onsets"} :
          locals[k].sr = args.sample_rate
    /\ \A i \in 1..Len(plot_calls) : plot_calls[i].sr = args.sample_rate

\* C5: a waveform of length zero ends the pipeline with an empty-signal error
\* before any feature is computed; no bundle, report or plot is produced.
C5_EmptySignalError ==
    signal.N = 0 =>
        /\ exc \in {"None", "EmptySignalError"}
        /\ Exited => exc = "EmptySignalError"
        /\ NothingExtracted
        /\ ~Printed("table")
        /\ NothingPlotted

\* C6: a failure of loading or of feature extraction is never handled: the
\* exception stays in flight until the process ends, the status is then not 0,
\* and no directory or file was created; a run without exception ends with 0.
C6_FailurePropagates ==
    /\ exc \in {"FileNotFoundError", "DecodeError", "LibraryError"} =>
          /\ pc \in {"raised", "exited"}
          /\ dirs = {} /\ files = {}
          /\ Exited => exit_status # None /\ exit_status[1] # 0
    /\ (Exited /\ exc = "None") => exit_status = <<0>>
    /\ ~Exited => exit_status = None

C6_Witness == Exited /\ exc = "LibraryError" /\ signal.N = 0 /\ pbar_n > 0

\* C7 as stated: volume and transitions have 1 + floor((N - 2048) / 512) frames.
C7_UncenteredFrameCount ==
    Returned =>
        /\ Len(features["volume"]) = 1 + ((signal.N - 2048) \div 512)
        /\ Len(features["transitions"]) = 1 + ((signal.N - 2048) \div 512)

\* C7 amended: the frames are centered (the waveform is padded by 1024 samples
\* at both ends), so volume and transitions have 1 + floor(N / 512) frames each.
C7_CenteredFrameCount ==
    /\ "raw_volume" \in DOMAIN locals =>
          Len(locals["raw_volume"]) = 1 + (signal.N \div 512)
    /\ Returned =>
        /\ Len(features["volume"]) = 1 + (signal.N \div 512)
        /\ Len(features["transitions"]) = 1 + (signal.N \div 512)

C7_Witness ==
    /\ Returned
    /\ signal.N > 2048
    /\ signal.N % 512 # 0
    /\ Len(features["volume"]) = 5

\* C8: on a silent waveform that is not empty no extractor raises, the function
\* runs on to its return, and in the bundle every volume and every transitions
\* entry is 0, so that both means print as 0.000.
C8_Silence ==
    (signal.silent /\ signal.N > 0) =>
        /\ exc = "None"
        /\ pc # "raised"
        /\ pc # "report" => ENABLED NextExtract
        /\ Returned =>
            /\ \A i \in 1..Len(features["volume"]) : features["volume"][i] = Zero
            /\ \A i \in 1..Len(features["transitions"]) :
                  features["transitions"][i] = Zero
            /\ Format3f(NpMean(features["volume"])) = 0
            /\ Format3f(NpMean(features["transitions"])) = 0

C8_Witness == signal.silent /\ signal.N > 2048 /\ Returned

\* what Path(name).stem is for the three file names of InputFiles
ExpectedStem(name) ==
    CASE name = <<"a">> -> <<"a">>
      [] name = <<"a", ".", "w">> -> <<"a">>
      [] name = <<"a", ".", "b", ".", "w">> -> <<"a", ".", "b">>

\* C9: nothing of the plotting happens before the table is printed.  With
\* --no-plot create_analysis_plots is never called and nothing is created.
\* Without it, in a run that ends without exception: with an output directory
\* (a non-empty string) the plot is saved once, to <dir>/<stem>_analysis.png, and
\* not shown; without one (None, or the empty string, which line 129 treats
\* alike) it is shown once and nothing is written.
C9_PlotDispatch ==
    /\ ~NothingPlotted => Printed("table")
    /\ Printed("Analysis plots saved") => Printed("table")
    /\ args.no_plot => NothingPlotted
    /\ (Exited /\ exc = "None" /\ ~args.no_plot) =>
          /\ Len(plot_calls) = 1
          /\ plot_calls[1].sr = sample_rate
          /\ IF args.output # None /\ args.output # <<"">>
             THEN LET path == [dir |-> args.output[1],
                               file |-> ExpectedStem(args.input_file)
                                          \o <<"_analysis.png">>]
                  IN  /\ files = {path}
                      /\ plot_calls[1].save_path = <<path>>
                      /\ dirs = {args.output[1]}
                      /\ shown = 0
             ELSE /\ shown = 1
                  /\ files = {}
                  /\ dirs = {}
                  /\ plot_calls[1].save_path = None

C9_Witness ==
    /\ Exited
    /\ exc = "None"
    /\ ~args.no_plot
    /\ args.output = <<"out">>
    /\ args.input_file = <<"a", ".", "b", ".", "w">>
    /\ Cardinality(files) = 1

\* C10: the progress counter never exceeds its total, and equals it when
\* extract_audio_features returns.
C10_ProgressWithinTotal ==
    /\ pbar_n <= pbar_total
    /\ Returned => pbar_n = pbar_total

====
